---- MODULE Spec2Model ----
(***************************************************************************)
(* parseM3U (src/parseM3U.js): a single-pass, line-oriented parser of      *)
(* extended-M3U playlist text into channel records.                         *)
(*                                                                         *)
(* Strings are sequences of one-character strings; indices of the string   *)
(* operators are 0-based as in JavaScript.                                 *)
(***************************************************************************)
EXTENDS Integers, Sequences, FiniteSets

(***************************************************************************)
(* Bounds of the checked inputs.                                           *)
(***************************************************************************)
MaxLines == 3
MaxPairs == 2
MaxCallLines == 2
MaxFairLines == 2

(***************************************************************************)
(* Characters and the JavaScript string operations the parser uses.        *)
(***************************************************************************)
LowerSeq == <<"a", "b", "c", "d", "e", "f", "g", "h", "i", "j", "k", "l", "m", "n", "o", "p", "q", "r", "s", "t", "u", "v", "w", "x", "y", "z">>
UpperSeq == <<"A", "B", "C", "D", "E", "F", "G", "H", "I", "J", "K", "L", "M", "N", "O", "P", "Q", "R", "S", "T", "U", "V", "W", "X", "Y", "Z">>
DigitSeq == <<"0", "1", "2", "3", "4", "5", "6", "7", "8", "9">>

Range(s) == {s[k] : k \in DOMAIN s}

\* the characters String.prototype.trim and the regex class \s remove/match
WhiteSpace == {" ", "\t", "\r", "\n", "\f"}
\* the regex class \d
DigitChar == Range(DigitSeq)
\* the regex class [a-zA-Z0-9_-]
KeyChar == Range(LowerSeq) \cup Range(UpperSeq) \cup DigitChar \cup {"_", "-"}

ToLowerChar(c) ==
    IF c \in Range(UpperSeq)
    THEN LowerSeq[CHOOSE k \in DOMAIN UpperSeq : UpperSeq[k] = c]
    ELSE c
\* String.prototype.toLowerCase
ToLowerCase(s) == [k \in DOMAIN s |-> ToLowerChar(s[k])]

\* String.prototype.trim
\* index of the first and of the last character that is not white space
\* (Len(s) + 1 and 0 when there is none)
FirstKept(s) ==
    CHOOSE p \in 1..(Len(s) + 1) :
        /\ p > Len(s) \/ s[p] \notin WhiteSpace
        /\ \A j \in 1..(p - 1) : s[j] \in WhiteSpace
LastKept(s) ==
    CHOOSE p \in 0..Len(s) :
        /\ p = 0 \/ s[p] \notin WhiteSpace
        /\ \A j \in (p + 1)..Len(s) : s[j] \in WhiteSpace
Trim(s) == SubSeq(s, FirstKept(s), LastKept(s))

\* String.prototype.startsWith
StartsWith(s, p) == Len(s) >= Len(p) /\ SubSeq(s, 1, Len(p)) = p

\* String.prototype.substring(a, b) with 0 <= a <= b <= length
Substring(s, a, b) == SubSeq(s, a + 1, b)
\* String.prototype.substring(a)
SubstringFrom(s, a) == SubSeq(s, a + 1, Len(s))

\* String.prototype.lastIndexOf(c): 0-based index of the last c, or -1
IndexOf(s, c) ==
    IF \E p \in 1..Len(s) : s[p] = c
    THEN (CHOOSE p \in 1..Len(s) : s[p] = c /\ \A j \in 1..(p - 1) : s[j] # c) - 1
    ELSE -1
LastIndexOf(s, c) ==
    (CHOOSE p \in 0..Len(s) :
        /\ p = 0 \/ s[p] = c
        /\ \A j \in (p + 1)..Len(s) : s[j] # c) - 1

\* String.prototype.split('\n')
\* index of the first c at or after index k (Len(s) + 1 when there is none)
FirstAt(s, c, k) ==
    CHOOSE p \in k..(Len(s) + 1) :
        /\ p > Len(s) \/ s[p] = c
        /\ \A j \in k..(p - 1) : s[j] # c
Split(s) ==
    LET nl == {p \in 1..Len(s) : s[p] = "\n"}
        \* the index of the k-th newline; 0 and Len(s) + 1 bracket the text
        Cut(k) == IF k = 0 THEN 0
                  ELSE IF k > Cardinality(nl) THEN Len(s) + 1
                  ELSE CHOOSE p \in nl : Cardinality({q \in nl : q < p}) = k - 1
    IN  [k \in 1..(Cardinality(nl) + 1) |-> SubSeq(s, Cut(k - 1) + 1, Cut(k) - 1)]

\* template-literal conversion of a non-negative integer: its decimal digits
RECURSIVE NumToStr(_)
NumToStr(n) ==
    IF n < 10 THEN <<DigitSeq[n + 1]>>
    ELSE NumToStr(n \div 10) \o <<DigitSeq[(n % 10) + 1]>>

(***************************************************************************)
(* Literals of the source.                                                 *)
(***************************************************************************)
EXTM3U == <<"#", "E", "X", "T", "M", "3", "U">>
EXTINF == <<"#", "E", "X", "T", "I", "N", "F", ":">>
Hash == <<"#">>
ChannelPrefix == <<"C", "h", "a", "n", "n", "e", "l", " ">>
UnnamedPrefix == <<"U", "n", "n", "a", "m", "e", "d", " ", "C", "h", "a", "n", "n", "e", "l", " ">>
KeyTvgId == <<"t", "v", "g", "-", "i", "d">>
KeyTvgName == <<"t", "v", "g", "-", "n", "a", "m", "e">>
KeyTvgLogo == <<"t", "v", "g", "-", "l", "o", "g", "o">>
KeyGroupTitle == <<"g", "r", "o", "u", "p", "-", "t", "i", "t", "l", "e">>
PlaceholderWord == <<"c", "h", "a", "n", "n", "e", "l">>
\* line.substring(8): the length of '#EXTINF:'
PrefixLen == 8

\* the absent value: currentChannel = null, and exec() returning null
null == [isNull |-> TRUE]

(***************************************************************************)
(* attributeRegex: one or more key characters, an equals sign, and a       *)
(* double-quoted value without a double quote in it; global (/g) flag.     *)
(***************************************************************************)
\* 0-based index of the first character at or after p that is not a key
\* character (Len(s) when the run reaches the end)
RunEnd(s, p) ==
    CHOOSE e \in p..Len(s) :
        /\ e = Len(s) \/ s[e + 1] \notin KeyChar
        /\ \A j \in p..(e - 1) : s[j + 1] \in KeyChar

\* the regex matches with its first character at 0-based index p
MatchesAt(s, p) ==
    /\ p < Len(s)
    /\ s[p + 1] \in KeyChar
    /\ LET e == RunEnd(s, p)
       IN  /\ e + 2 <= Len(s)
           /\ s[e + 1] = "="
           /\ s[e + 2] = "\""
           /\ FirstAt(s, "\"", e + 3) <= Len(s)

\* the match object at p: match[1], match[2] and the index after the match
MatchAt(s, p) ==
    LET e == RunEnd(s, p)
        q == FirstAt(s, "\"", e + 3) - 1
    IN  [key |-> Substring(s, p, e), value |-> Substring(s, e + 2, q), end |-> q + 1]

\* attributeRegex.exec(s) with attributeRegex.lastIndex = from
Exec(s, from) ==
    IF \E p \in from..(Len(s) - 1) : MatchesAt(s, p)
    THEN MatchAt(s, CHOOSE p \in from..(Len(s) - 1) :
                        MatchesAt(s, p) /\ \A j \in from..(p - 1) : ~MatchesAt(s, j))
    ELSE null

\* lastIndex after a successful exec of a global (/g) regex
LastIndexNotGlobal(m) == 0
LastIndexAfter(m) == m.end

\* name.match(/^Channel\s*\d+$/i)
IsPlaceholder(name) ==
    /\ Len(name) > Len(PlaceholderWord)
    /\ ToLowerCase(SubSeq(name, 1, Len(PlaceholderWord))) = PlaceholderWord
    /\ \E d \in (Len(PlaceholderWord) + 1)..Len(name) :
          /\ \A k \in (Len(PlaceholderWord) + 1)..(d - 1) : name[k] \in WhiteSpace
          /\ \A k \in d..Len(name) : name[k] \in DigitChar

(***************************************************************************)
(* Playlists given to the parser.  A playlist is described line by line;   *)
(* a description records what was written (kind, attribute pairs, display  *)
(* name) next to the text of the line, and the argument of parseM3U is the *)
(* text of the lines joined by newlines.                                   *)
(***************************************************************************)
Attr(k, v) == [key |-> k, value |-> v]

RECURSIVE AttrText(_)
AttrText(attrs) ==
    IF attrs = <<>> THEN <<>>
    ELSE <<" ">> \o Head(attrs).key \o <<"=", "\"">> \o Head(attrs).value \o <<"\"">>
         \o AttrText(Tail(attrs))

\* a metadata directive with a comma: prefix, duration, attribute pairs, name
Directive(attrs, name) ==
    [kind |-> "extinf", attrs |-> attrs, name |-> name,
     text |-> EXTINF \o <<"-", "1">> \o AttrText(attrs) \o <<",">> \o name]
Other(kind, text) == [kind |-> kind, attrs |-> <<>>, name |-> <<>>, text |-> text]

NameABC == <<"A", "B", "C", " ", "N", "e", "w", "s">>
NameTwo == <<"T", "w", "o">>
NameChannel5 == <<"C", "h", "a", "n", "n", "e", "l", " ", "5">>
Namechannel7 == <<"c", "h", "a", "n", "n", "e", "l", "7">>
NameChannelX == <<"C", "h", "a", "n", "n", "e", "l", " ", "X">>

HeaderLine == Other("header", EXTM3U)
BlankLine == Other("blank", <<>>)
MalformedLine == Other("malformed", EXTINF \o <<"-", "1", " ", "n", "o", " ", "c", "o", "m", "m", "a">>)
OtherLine == Other("other", <<"#", "E", "X", "T", "V", "L", "C", "O", "P", "T", ":", "x">>)
UrlA == Other("url", <<"h", "t", "t", "p", ":", "/", "/", "a">>)
\* a URL line with surrounding white space (a CRLF file)
UrlB == Other("url", <<" ", "h", "t", "t", "p", ":", "/", "/", "b", "\r">>)

DirFull ==
    Directive(<<Attr(KeyTvgId, <<"i", "1">>), Attr(KeyTvgName, <<"n", "1">>),
                Attr(KeyTvgLogo, <<"l", "1">>), Attr(KeyGroupTitle, <<"g", "1">>)>>, NameABC)
DirPlain == Directive(<<>>, NameTwo)
DirPlaceholderTvg == Directive(<<Attr(KeyTvgName, <<"n", "2">>)>>, NameChannel5)
DirPlaceholder == Directive(<<>>, NameChannel5)
DirLowerPlaceholderTvg == Directive(<<Attr(KeyTvgName, <<"n", "4">>)>>, Namechannel7)
DirNearPlaceholderTvg == Directive(<<Attr(KeyTvgName, <<"n", "5">>)>>, NameChannelX)
DirEmptyTvg == Directive(<<Attr(KeyTvgName, <<"n", "3">>)>>, <<>>)
DirEmpty == Directive(<<>>, <<>>)
DirEmptyGroup == Directive(<<Attr(KeyGroupTitle, <<"g", "2">>)>>, <<>>)

\* the same directive with its keys in lower case, in upper case, and with
\* a capital first letter; the display name is a placeholder, so the name of
\* the channel depends on the tvg-name pair being recognised
ToUpperChar(c) ==
    IF c \in Range(LowerSeq)
    THEN UpperSeq[CHOOSE k \in DOMAIN LowerSeq : LowerSeq[k] = c]
    ELSE c
UpperKeys(attrs) ==
    [j \in DOMAIN attrs |->
        Attr([k \in DOMAIN attrs[j].key |-> ToUpperChar(attrs[j].key[k])], attrs[j].value)]
CapitalKeys(attrs) ==
    [j \in DOMAIN attrs |->
        Attr(<<ToUpperChar(Head(attrs[j].key))>> \o Tail(attrs[j].key), attrs[j].value)]
DirCaseLower == Directive(DirFull.attrs, NameChannel5)
DirCaseUpper == Directive(UpperKeys(DirFull.attrs), NameChannel5)
DirCaseCapital == Directive(CapitalKeys(DirFull.attrs), NameChannel5)
\* the example of the key in upper case, with an empty display name
DirIdLower == Directive(<<Attr(KeyTvgId, <<"x">>)>>, <<>>)
DirIdUpper == Directive(UpperKeys(DirIdLower.attrs), <<>>)
CaseDirectives == {DirCaseLower, DirCaseUpper, DirCaseCapital, DirIdLower, DirIdUpper}

\* the directive with one more pair, of a key the switch has no case for, at
\* any position among its four pairs
AttrCatchup == Attr(<<"c", "a", "t", "c", "h", "u", "p">>, <<"1">>)
AttrXTvgId == Attr(<<"x", "-">> \o KeyTvgId, <<"z">>)
InsertAt(attrs, p, a) == SubSeq(attrs, 1, p) \o <<a>> \o SubSeq(attrs, p + 1, Len(attrs))
UnknownKeyDirectives ==
    {Directive(InsertAt(DirFull.attrs, p, a), NameChannel5) :
        p \in 0..Len(DirFull.attrs), a \in {AttrCatchup, AttrXTvgId}}
\* a pair whose key has a character outside the key class of the regex right
\* before the text of a key of the switch, as first and as last pair
AttrDottedTvgId == Attr(<<"x", ".">> \o KeyTvgId, <<"z">>)
DottedKeyDirectives ==
    {Directive(InsertAt(DirFull.attrs, p, AttrDottedTvgId), NameChannel5) :
        p \in {0, Len(DirFull.attrs)}}

\* directives around the split at the last comma: values with commas in
\* them, pairs written after the last comma, a display name with a comma
\* (the name is then the text after it), and a value with a comma in a
\* directive that has no other comma (the split then falls inside the value)
DirCommaValue ==
    Directive(<<Attr(KeyGroupTitle, <<"a", ",", "b">>), Attr(KeyTvgId, <<"i", ",">>)>>, NameTwo)
DirPairAfterComma ==
    Directive(<<Attr(KeyTvgId, <<"i", "1">>)>>,
              NameTwo \o <<" ">> \o KeyTvgLogo \o <<"=", "\"", "z", "\"">>)
DirOnlyPairAfterComma == Directive(<<>>, KeyTvgName \o <<"=", "\"", "q", "\"">>)
DirCommaName ==
    [Directive(<<Attr(KeyTvgId, <<"i", "1">>)>>, <<"B">>) EXCEPT
        !.text = EXTINF \o <<"-", "1">> \o AttrText(<<Attr(KeyTvgId, <<"i", "1">>)>>)
                    \o <<",", "A", ",", " ", "B">>]
DirCommaInValueOnly ==
    [Directive(<<>>, <<"b", "\"">>) EXCEPT
        !.text = EXTINF \o <<"-", "1">> \o AttrText(<<Attr(KeyGroupTitle, <<"a", ",", "b">>)>>)]
CommaDirectives ==
    {DirCommaValue, DirPairAfterComma, DirOnlyPairAfterComma, DirCommaName,
     DirCommaInValueOnly}

\* lines around the header test: the marker with white space around it, a
\* directive that begins with the marker, and a line of white space
HeaderPadded == Other("header", <<" ", " ">> \o EXTM3U \o <<"\r">>)
HeaderLike == Other("other", EXTM3U \o <<"8", " ", "x">>)
BlankPadded == Other("blank", <<" ", "\t", "\r">>)
\* a content line that is no URL: the text of a pair, a comma and a word
TextLine ==
    Other("url", KeyTvgId \o <<"=", "\"", "q", "\"", ",", " ", "x">>)
EdgePool ==
    {HeaderPadded, HeaderLike, BlankPadded, TextLine, HeaderLine, BlankLine, DirPlain, UrlA}

Directives ==
    {DirFull, DirPlain, DirPlaceholderTvg, DirPlaceholder, DirLowerPlaceholderTvg,
     DirNearPlaceholderTvg, DirEmptyTvg, DirEmpty}
Urls == {UrlA, UrlB}
LinePool == Directives \cup Urls \cup {HeaderLine, BlankLine, MalformedLine, OtherLine}
CallPool == {DirEmptyGroup, MalformedLine, OtherLine, UrlA}

SeqsUpTo(S, n) == UNION {[1..k -> S] : k \in 0..n}

\* any lines in any order; the empty text is the single blank line
FreeDocs == SeqsUpTo(LinePool, MaxLines) \ {<<>>}

\* a header line followed by pairs of a metadata directive and a URL line
RECURSIVE Pairs(_)
Pairs(ps) == IF ps = <<>> THEN <<>> ELSE <<Head(ps)[1], Head(ps)[2]>> \o Pairs(Tail(ps))
WellFormedDocs == {<<HeaderLine>> \o Pairs(ps) : ps \in SeqsUpTo(Directives \X Urls, MaxPairs)}

\* pairs of a directive and a URL line, each pair preceded by a line that
\* completes nothing: a comment, a blank line, a malformed directive, or a
\* directive that the pair's own directive supersedes
Distractors == {OtherLine, BlankLine, MalformedLine, DirPlain}
RECURSIVE Groups(_)
Groups(gs) ==
    IF gs = <<>> THEN <<>>
    ELSE <<Head(gs)[1], Head(gs)[2], Head(gs)[3]>> \o Groups(Tail(gs))
InterleavedDocs ==
    {Groups(gs) : gs \in SeqsUpTo(Distractors \X {DirFull, DirEmpty} \X Urls, MaxPairs)}
        \ {<<>>}

\* the lines around the header test, in any order
EdgeDocs == SeqsUpTo(EdgePool, MaxLines) \ {<<>>}

\* a directive completed by a URL line, as the first record and as the second
VariantDocs(ds) == {<<d, UrlA>> : d \in ds} \cup {<<UrlA, d, UrlA>> : d \in ds}

Docs ==
    FreeDocs \cup WellFormedDocs \cup InterleavedDocs \cup EdgeDocs
        \cup VariantDocs(CommaDirectives)
CallDocs == (SeqsUpTo(CallPool, MaxCallLines) \ {<<>>}) \cup VariantDocs(CaseDirectives \cup UnknownKeyDirectives \cup DottedKeyDirectives)
FairDocs == SeqsUpTo(LinePool, MaxFairLines) \ {<<>>}

\* the playlist text: the lines joined by newlines
RECURSIVE Join(_)
Join(d) ==
    IF d = <<>> THEN <<>>
    ELSE IF Len(d) = 1 THEN d[1].text
    ELSE d[1].text \o <<"\n">> \o Join(Tail(d))

(***************************************************************************)
(* State of an invocation of parseM3U.                                     *)
(***************************************************************************)
VARIABLES
    doc,             \* the description of the playlist passed in (not read by the parser)
    m3uText,         \* the argument
    lines,           \* m3uText.split('\n')
    i,               \* the loop index
    parsedChannels,  \* the output accumulator
    currentChannel,  \* the pending channel, or null
    attributesPart,  \* the attribute block the regex loop scans
    lastIndex,       \* attributeRegex.lastIndex
    warnings,        \* the console.warn calls of this invocation, in order
    pc,              \* "call", "loop", "attrs", "done"
    first            \* the caller's note of the first finished invocation, or null

vars == <<doc, m3uText, lines, i, parsedChannels, currentChannel, attributesPart,
          lastIndex, warnings, pc, first>>

Warn(kind, arg, about) == [kind |-> kind, arg |-> arg, about |-> about]

\* const parsedChannels = [] at the entry of an invocation
NewParsedChannelsKept(old) == old
NewParsedChannels(old) == <<>>

\* Array.prototype.push
PushFront(arr, rec) == <<rec>> \o arr
Push(arr, rec) == Append(arr, rec)

\* the missing-header test on lines[0]
HeaderMissingUnlessExact(ls) == Trim(ls[1]) # EXTM3U
HeaderMissing(ls) == ls[1] = <<>> \/ ~StartsWith(Trim(ls[1]), EXTM3U)

\* the currentChannel object literal
NewChannelReused(line) ==
    IF currentChannel # null
    THEN [currentChannel EXCEPT !.name = <<>>, !.url = <<>>, !.rawExtInf = line]
    ELSE [name |-> <<>>, tvgId |-> <<>>, tvgName |-> <<>>, logo |-> <<>>, group |-> <<>>,
          url |-> <<>>, rawExtInf |-> line]
NewChannel(line) ==
    [name |-> <<>>, tvgId |-> <<>>, tvgName |-> <<>>, logo |-> <<>>, group |-> <<>>,
     url |-> <<>>, rawExtInf |-> line]

\* currentChannel && !currentChannel.url
MissingUrlNegationLost(ch) == ch # null /\ ch.url # <<>>
MissingUrl(ch) == ch # null /\ ch.url = <<>>

\* the switch on the lower-cased key
AssignAttributeCaseSensitive(ch, m) ==
    LET key == m.key
    IN  IF key = KeyTvgId THEN [ch EXCEPT !.tvgId = m.value]
        ELSE IF key = KeyTvgName THEN [ch EXCEPT !.tvgName = m.value]
        ELSE IF key = KeyTvgLogo THEN [ch EXCEPT !.logo = m.value]
        ELSE IF key = KeyGroupTitle THEN [ch EXCEPT !.group = m.value]
        ELSE ch
AssignAttributeDefaultGroup(ch, m) ==
    LET key == ToLowerCase(m.key)
    IN  IF key = KeyTvgId THEN [ch EXCEPT !.tvgId = m.value]
        ELSE IF key = KeyTvgName THEN [ch EXCEPT !.tvgName = m.value]
        ELSE IF key = KeyTvgLogo THEN [ch EXCEPT !.logo = m.value]
        ELSE [ch EXCEPT !.group = m.value]
AssignAttribute(ch, m) ==
    LET key == ToLowerCase(m.key)
    IN  IF key = KeyTvgId THEN [ch EXCEPT !.tvgId = m.value]
        ELSE IF key = KeyTvgName THEN [ch EXCEPT !.tvgName = m.value]
        ELSE IF key = KeyTvgLogo THEN [ch EXCEPT !.logo = m.value]
        ELSE IF key = KeyGroupTitle THEN [ch EXCEPT !.group = m.value]
        ELSE ch

\* the two name fallbacks that follow the attribute loop
PreferTvgNameOnlyIfEmpty(ch) ==
    IF ch.name = <<>> /\ ch.tvgName # <<>> THEN [ch EXCEPT !.name = ch.tvgName] ELSE ch
PreferTvgName(ch) ==
    IF (ch.name = <<>> \/ IsPlaceholder(ch.name)) /\ ch.tvgName # <<>>
    THEN [ch EXCEPT !.name = ch.tvgName]
    ELSE ch
NameOrUnnamedZeroBased(ch, count) ==
    IF ch.name = <<>>
    THEN [ch EXCEPT !.name = UnnamedPrefix \o NumToStr(count)]
    ELSE ch
NameOrUnnamedSkipped(ch, count) == ch
NameOrUnnamed(ch, count) ==
    IF ch.name = <<>>
    THEN [ch EXCEPT !.name = UnnamedPrefix \o NumToStr(count + 1)]
    ELSE ch
NormalizeName(ch, count) == NameOrUnnamed(PreferTvgName(ch), count)

\* currentChannel.url = line; delete currentChannel.rawExtInf
FinalizeKeepRaw(ch, line) == [ch EXCEPT !.url = line]
Finalize(ch, line) ==
    LET done == [ch EXCEPT !.url = line]
    IN  [f \in (DOMAIN done) \ {"rawExtInf"} |-> done[f]]

\* the record pushed for a URL line without a pending channel
BasicEntryZeroBased(line, count) ==
    [name |-> ChannelPrefix \o NumToStr(count), url |-> line,
     tvgId |-> <<>>, tvgName |-> <<>>, logo |-> <<>>, group |-> <<>>]
BasicEntry(line, count) ==
    [name |-> ChannelPrefix \o NumToStr(count + 1), url |-> line,
     tvgId |-> <<>>, tvgName |-> <<>>, logo |-> <<>>, group |-> <<>>]

\* const line = lines[i].trim()
Line == Trim(lines[i + 1])
IsContentUnlessDirective(line) == ~StartsWith(line, Hash)
IsContent(line) == line # <<>> /\ ~StartsWith(line, Hash)

(***************************************************************************)
(* The invocation, one action per step of the function body.  A const of  *)
(* the source is bound once, as a quantifier over a one-element set.       *)
(***************************************************************************)
\* the function entry up to the loop: split, fresh locals, header check
Enter(text) ==
    /\ \E ls \in {Split(text)} :
          /\ lines' = ls
          /\ warnings' = IF HeaderMissing(ls)
                         THEN <<Warn("MissingHeader", <<>>, <<>>)>>
                         ELSE <<>>
    /\ parsedChannels' = NewParsedChannels(parsedChannels)
    /\ currentChannel' = null
    /\ i' = 0
    /\ attributesPart' = <<>>
    /\ lastIndex' = 0
    /\ pc' = "loop"

Start ==
    /\ pc = "call"
    /\ Enter(m3uText)
    /\ UNCHANGED <<doc, m3uText, first>>

\* the warning of a metadata directive that finds a channel still pending
DiscardPrevious ==
    IF MissingUrl(currentChannel)
    THEN <<Warn("DiscardPrevious", currentChannel.name, <<>>)>>
    ELSE <<>>

\* currentChannel after a directive without a comma
MalformedResultKept(line) == NewChannel(line)
MalformedResult(line) == null

\* a '#EXTINF:' line without a comma
ExtInfMalformed ==
    /\ pc = "loop" /\ i < Len(lines)
    /\ \E line \in {Line} :
          /\ StartsWith(line, EXTINF)
          /\ \E infoLine \in {Trim(SubstringFrom(line, PrefixLen))} :
                LastIndexOf(infoLine, ",") = -1
          /\ warnings' = warnings \o DiscardPrevious \o <<Warn("Malformed", line, <<>>)>>
          /\ currentChannel' = MalformedResult(line)
    /\ i' = i + 1
    /\ UNCHANGED <<doc, m3uText, lines, parsedChannels, attributesPart, lastIndex, pc, first>>

\* a '#EXTINF:' line with a comma: the new pending channel, its name, and the
\* attribute block handed to the regex loop
ExtInfBegin ==
    /\ pc = "loop" /\ i < Len(lines)
    /\ \E line \in {Line} :
       \E infoLine \in {Trim(SubstringFrom(line, PrefixLen))} :
       \E commaIndex \in {LastIndexOf(infoLine, ",")} :
          /\ StartsWith(line, EXTINF)
          /\ commaIndex # -1
          /\ currentChannel' =
                [NewChannel(line) EXCEPT
                    !.name = Trim(SubstringFrom(infoLine, commaIndex + 1))]
          /\ attributesPart' = Trim(Substring(infoLine, 0, commaIndex))
    /\ warnings' = warnings \o DiscardPrevious
    /\ lastIndex' = 0
    /\ pc' = "attrs"
    /\ UNCHANGED <<doc, m3uText, lines, i, parsedChannels, first>>

\* one iteration of the while loop: exec found a pair
AttrMatch ==
    /\ pc = "attrs"
    /\ \E match \in {Exec(attributesPart, lastIndex)} :
          /\ match # null
          /\ currentChannel' = AssignAttribute(currentChannel, match)
          /\ lastIndex' = LastIndexAfter(match)
    /\ UNCHANGED <<doc, m3uText, lines, i, parsedChannels, attributesPart, warnings, pc, first>>

\* exec returned null: the loop ends, the name is normalized
AttrDone ==
    /\ pc = "attrs"
    /\ Exec(attributesPart, lastIndex) = null
    /\ currentChannel' = NormalizeName(currentChannel, Len(parsedChannels))
    /\ attributesPart' = <<>>
    /\ lastIndex' = 0
    /\ i' = i + 1
    /\ pc' = "loop"
    /\ UNCHANGED <<doc, m3uText, lines, parsedChannels, warnings, first>>

\* a content line while a channel is pending
CompleteChannel ==
    /\ pc = "loop" /\ i < Len(lines)
    /\ \E line \in {Line} :
          /\ ~StartsWith(line, EXTINF)
          /\ currentChannel # null /\ IsContent(line)
          /\ parsedChannels' = Push(parsedChannels, Finalize(currentChannel, line))
    /\ currentChannel' = null
    /\ i' = i + 1
    /\ UNCHANGED <<doc, m3uText, lines, attributesPart, lastIndex, warnings, pc, first>>

\* a content line without a pending channel
BareUrl ==
    /\ pc = "loop" /\ i < Len(lines)
    /\ \E line \in {Line} :
          /\ ~StartsWith(line, EXTINF)
          /\ ~(currentChannel # null /\ IsContent(line))
          /\ IsContent(line) /\ currentChannel = null
          /\ warnings' = Append(warnings, Warn("BareUrl", line, <<>>))
          /\ parsedChannels' = Push(parsedChannels, BasicEntry(line, Len(parsedChannels)))
    /\ i' = i + 1
    /\ UNCHANGED <<doc, m3uText, lines, currentChannel, attributesPart, lastIndex, pc, first>>

\* the last branch: a directive other than the exact header, channel pending
DiscardsPendingAnyDirective(line, ch) == StartsWith(line, Hash) /\ MissingUrl(ch)
DiscardsPendingUnlessMarkerPrefix(line, ch) ==
    StartsWith(line, Hash) /\ ~StartsWith(line, EXTM3U) /\ MissingUrl(ch)
DiscardsPending(line, ch) ==
    StartsWith(line, Hash) /\ line # EXTM3U /\ MissingUrl(ch)

DirectiveDiscard ==
    /\ pc = "loop" /\ i < Len(lines)
    /\ \E line \in {Line} :
          /\ ~StartsWith(line, EXTINF)
          /\ ~IsContent(line)
          /\ DiscardsPending(line, currentChannel)
          /\ warnings' =
                Append(warnings, Warn("DirectiveBeforeUrl", line, currentChannel.name))
    /\ currentChannel' = null
    /\ i' = i + 1
    /\ UNCHANGED <<doc, m3uText, lines, parsedChannels, attributesPart, lastIndex, pc, first>>

\* no branch applies: the line is passed over
SkipLine ==
    /\ pc = "loop" /\ i < Len(lines)
    /\ \E line \in {Line} :
          /\ ~StartsWith(line, EXTINF)
          /\ ~IsContent(line)
          /\ ~DiscardsPending(line, currentChannel)
    /\ i' = i + 1
    /\ UNCHANGED <<doc, m3uText, lines, parsedChannels, currentChannel, attributesPart,
                   lastIndex, warnings, pc, first>>

\* parsedChannels.length === 0 && lines.length > 1
EmptyResultSuspiciousAnyCount(count, n) == n > 1
EmptyResultSuspiciousAnyLength(count, n) == count = 0
EmptyResultSuspicious(count, n) == count = 0 /\ n > 1

\* after the loop: the two closing warnings and the return
Finish ==
    /\ pc = "loop" /\ i = Len(lines)
    /\ warnings' = warnings
          \o (IF MissingUrl(currentChannel)
              THEN <<Warn("MissingUrlAtEOF", currentChannel.rawExtInf, <<>>)>> ELSE <<>>)
          \o (IF EmptyResultSuspicious(Len(parsedChannels), Len(lines))
              THEN <<Warn("ZeroChannels", <<>>, <<>>)>> ELSE <<>>)
    /\ pc' = "done"
    /\ UNCHANGED <<doc, m3uText, lines, i, parsedChannels, currentChannel, attributesPart,
                   lastIndex, first>>

\* the caller notes the first result and invokes parseM3U again
Call ==
    /\ pc = "done"
    /\ \E d \in CallDocs : \E text \in {Join(d)} :
          /\ doc' = d
          /\ m3uText' = text
          /\ Enter(text)
    /\ first' = IF first = null
                THEN [text |-> m3uText, result |-> parsedChannels, others |-> FALSE]
                ELSE [first EXCEPT !.others = first.others \/ m3uText # first.text]

Fresh(docs) ==
    /\ doc \in docs
    /\ m3uText = Join(doc)
    /\ lines = <<>>
    /\ i = 0
    /\ parsedChannels = <<>>
    /\ currentChannel = null
    /\ attributesPart = <<>>
    /\ lastIndex = 0
    /\ warnings = <<>>
    /\ pc = "call"
    /\ first = null

Init == Fresh(Docs)
InitCalls == Fresh(CallDocs)
InitFair == Fresh(FairDocs)

Step ==
    \/ Start
    \/ ExtInfMalformed
    \/ ExtInfBegin
    \/ AttrMatch
    \/ AttrDone
    \/ CompleteChannel
    \/ BareUrl
    \/ DirectiveDiscard
    \/ SkipLine
    \/ Finish

Next == Step
NextCalls == Step \/ Call

\* one invocation on any playlist
Spec == Init /\ [][Next]_vars
\* the same, run to completion as JavaScript runs a synchronous call
FairSpec == InitFair /\ [][Next]_vars /\ WF_vars(Next)
\* repeated invocations from one caller
SpecCalls == InitCalls /\ [][NextCalls]_vars

(***************************************************************************)
(* What a playlist description says was written, for stating the claims.   *)
(***************************************************************************)
\* the value written for a key in a directive, the empty string when absent
RECURSIVE Written(_, _)
Written(attrs, key) ==
    IF attrs = <<>> THEN <<>>
    ELSE IF attrs[Len(attrs)].key = key THEN attrs[Len(attrs)].value
    ELSE Written(SubSeq(attrs, 1, Len(attrs) - 1), key)

\* the display names of the pool that are Channel followed by a number
PlaceholderNames == {NameChannel5, Namechannel7}

\* the name of the channel of directive d read when count records were emitted
ExpectedName(d, count) ==
    IF d.name # <<>> /\ ~(d.name \in PlaceholderNames /\ Written(d.attrs, KeyTvgName) # <<>>)
    THEN d.name
    ELSE IF Written(d.attrs, KeyTvgName) # <<>> THEN Written(d.attrs, KeyTvgName)
    ELSE UnnamedPrefix \o NumToStr(count + 1)

\* the record of directive d completed by URL line u as record number count + 1
ExpectedRecord(d, u, count) ==
    [name |-> ExpectedName(d, count), url |-> Trim(u.text),
     tvgId |-> Written(d.attrs, KeyTvgId), tvgName |-> Written(d.attrs, KeyTvgName),
     logo |-> Written(d.attrs, KeyTvgLogo), group |-> Written(d.attrs, KeyGroupTitle)]

\* the record of a URL line u without a directive, as record number count + 1
ExpectedBasic(u, count) ==
    [name |-> ChannelPrefix \o NumToStr(count + 1), url |-> Trim(u.text),
     tvgId |-> <<>>, tvgName |-> <<>>, logo |-> <<>>, group |-> <<>>]

\* a header line followed by pairs of a directive with a comma and a URL line
IsWellFormed(d) ==
    /\ Len(d) % 2 = 1
    /\ d[1] = HeaderLine
    /\ \A k \in 1..((Len(d) - 1) \div 2) : d[2 * k].kind = "extinf" /\ d[2 * k + 1].kind = "url"

LastRecord == parsedChannels[Len(parsedChannels)]

(***************************************************************************)
(* Claims.                                                                 *)
(***************************************************************************)

\* C1: every record of the output has a non-empty name and a non-empty url,
\* whether a URL line completed a pending channel or stood alone.
C1_NonEmptyNameAndUrl ==
    \A k \in 1..Len(parsedChannels) :
        parsedChannels[k].name # <<>> /\ parsedChannels[k].url # <<>>

\* a returned output with a record of an empty-name directive and a bare URL
C1_Witness ==
    /\ pc = "done"
    /\ doc = <<DirEmpty, UrlA, UrlB>>
    /\ Len(parsedChannels) = 2
    /\ parsedChannels[1].name = UnnamedPrefix \o <<"1">>
    /\ parsedChannels[2].name = ChannelPrefix \o <<"2">>

\* C2: records are only ever appended, by the content line being processed,
\* and lines are processed in input order: the output is in completion order.
C2_AppendOnlyInLineOrder ==
    [][/\ i' >= i
       /\ \/ parsedChannels' = parsedChannels
          \/ /\ pc = "loop" /\ i < Len(lines) /\ i' = i + 1
             /\ doc[i + 1].kind = "url"
             /\ Len(parsedChannels') = Len(parsedChannels) + 1
             /\ SubSeq(parsedChannels', 1, Len(parsedChannels)) = parsedChannels
             /\ parsedChannels'[Len(parsedChannels')].url = Trim(doc[i + 1].text)]_vars

\* two pairs completed in order, a comment before the first and a malformed
\* directive between them
C2_Witness ==
    /\ pc = "done"
    /\ doc = <<OtherLine, DirFull, UrlB, MalformedLine, DirEmpty, UrlA>>
    /\ Len(parsedChannels) = 2
    /\ parsedChannels[1].url = Trim(UrlB.text)
    /\ parsedChannels[2].url = Trim(UrlA.text)

\* C3 as claimed: a well-formed playlist of N pairs returns N records, the
\* k-th with the display name, the url and the four attribute values written
\* in the k-th pair (empty when absent), and exactly these six fields.
C3_DisplayNameAlways ==
    (pc = "done" /\ IsWellFormed(doc)) =>
        /\ Len(parsedChannels) = (Len(doc) - 1) \div 2
        /\ \A k \in 1..Len(parsedChannels) :
              parsedChannels[k] =
                 [ExpectedRecord(doc[2 * k], doc[2 * k + 1], k - 1) EXCEPT
                     !.name = doc[2 * k].name]

\* C3 amended: the same, with the name being the display name unless it is
\* empty or a placeholder with a tvg-name written; then it is the tvg-name,
\* or Unnamed Channel k when no tvg-name was written.
C3_WellFormedRecords ==
    (pc = "done" /\ IsWellFormed(doc)) =>
        /\ Len(parsedChannels) = (Len(doc) - 1) \div 2
        /\ \A k \in 1..Len(parsedChannels) :
              parsedChannels[k] = ExpectedRecord(doc[2 * k], doc[2 * k + 1], k - 1)

\* two pairs, the first with all four attributes and the second with none
C3_Witness ==
    /\ pc = "done"
    /\ doc = <<HeaderLine, DirFull, UrlA, DirPlain, UrlB>>
    /\ Len(parsedChannels) = 2
    /\ parsedChannels[1].tvgId = <<"i", "1">>
    /\ parsedChannels[2].tvgId = <<>>
    /\ DOMAIN parsedChannels[2] = {"name", "url", "tvgId", "tvgName", "logo", "group"}

\* C4: every invocation returns after passing over every line (so no state
\* short of the return is stuck), the line index moves one line at a time,
\* and every iteration of the attribute loop moves lastIndex forward.
C4_TerminatesWithoutFailure ==
    /\ [][i' = i \/ (pc \in {"loop", "attrs"} /\ i < Len(lines) /\ i' = i + 1)]_vars
    /\ [][(pc = "attrs" /\ pc' = "attrs") =>
             (lastIndex' > lastIndex /\ lastIndex' <= Len(attributesPart))]_vars
    /\ <>(pc = "done" /\ i = Len(lines))

\* a returned parse of a directive with four attributes and a malformed
\* directive that discards its channel
C4_Witness ==
    /\ pc = "done"
    /\ doc = <<DirFull, MalformedLine>>
    /\ i = 2
    /\ parsedChannels = <<>>

\* C5 as claimed: the empty string returns the empty sequence and emits no
\* diagnostic at all.
C5_EmptyTextNoDiagnostics ==
    (pc = "done" /\ m3uText = <<>>) => (parsedChannels = <<>> /\ warnings = <<>>)

\* C5 amended: the empty string returns the empty sequence and emits the
\* missing-header warning and nothing else (no zero-result warning).
C5_EmptyTextOnlyMissingHeader ==
    (pc = "done" /\ m3uText = <<>>) =>
        (parsedChannels = <<>> /\ warnings = <<Warn("MissingHeader", <<>>, <<>>)>>)

\* the returned parse of the empty string
C5_Witness ==
    /\ pc = "done"
    /\ m3uText = <<>>
    /\ lines = <<<<>>>>
    /\ Len(warnings) = 1

\* the state right after the directive on line i has been read
AfterDirective == pc = "loop" /\ i >= 1 /\ doc[i].kind = "extinf"

\* C6 as claimed: the display name when non-empty and not a placeholder;
\* the tvg-name when the display name is empty or a placeholder and a
\* tvg-name was written; Unnamed Channel n in every other case.
C6_UnnamedOtherwise ==
    AfterDirective =>
        /\ currentChannel # null
        /\ currentChannel.name =
              IF doc[i].name # <<>> /\ doc[i].name \notin PlaceholderNames
              THEN doc[i].name
              ELSE IF Written(doc[i].attrs, KeyTvgName) # <<>>
              THEN Written(doc[i].attrs, KeyTvgName)
              ELSE UnnamedPrefix \o NumToStr(Len(parsedChannels) + 1)

\* C6 amended: as claimed, except that a placeholder display name without a
\* tvg-name is kept, and Unnamed Channel n (n the number of records emitted
\* so far plus one) is used only for an empty display name without tvg-name.
C6_NameFallbackChain ==
    AfterDirective =>
        /\ currentChannel # null
        /\ currentChannel.name = ExpectedName(doc[i], Len(parsedChannels))

\* a placeholder display name without a tvg-name, after one emitted record
C6_Witness ==
    /\ AfterDirective
    /\ doc = <<UrlA, DirPlaceholder>>
    /\ i = 2
    /\ Len(parsedChannels) = 1
    /\ currentChannel.name = NameChannel5

\* the line about to be processed is of the given kind
AtLine(kind) == pc = "loop" /\ i < Len(lines) /\ doc[i + 1].kind = kind
\* the step appends exactly one warning, of the given kind
WarnsOnce(kind) ==
    /\ Len(warnings') = Len(warnings) + 1
    /\ SubSeq(warnings', 1, Len(warnings)) = warnings
    /\ warnings'[Len(warnings')].kind = kind

\* C7: a URL line met while no channel is pending appends exactly the record
\* named Channel n (n the number of records emitted before it plus one) with
\* the line as url and four empty attributes, warns once, and stays Idle.
C7_BareUrlSynthesized ==
    [][(AtLine("url") /\ currentChannel = null) =>
          /\ parsedChannels' =
                Append(parsedChannels, ExpectedBasic(doc[i + 1], Len(parsedChannels)))
          /\ WarnsOnce("BareUrl")
          /\ warnings'[Len(warnings')].arg = Trim(doc[i + 1].text)
          /\ currentChannel' = null
          /\ i' = i + 1]_vars

\* the second of two bare URL lines has been processed
C7_Witness ==
    /\ pc = "loop"
    /\ doc = <<UrlA, UrlB, OtherLine>>
    /\ i = 2
    /\ currentChannel = null
    /\ Len(parsedChannels) = 2
    /\ LastRecord.name = ChannelPrefix \o <<"2">>
    /\ LastRecord.url = <<"h", "t", "t", "p", ":", "/", "/", "b">>
    /\ warnings[Len(warnings)].kind = "BareUrl"

\* C8: a directive without a comma leaves the parser Idle from either state,
\* leaves the output unchanged and warns that it is malformed; a URL line
\* directly after it yields the bare-URL record.
C8_MalformedCreatesNoChannel ==
    /\ [][AtLine("malformed") =>
             /\ currentChannel' = null
             /\ parsedChannels' = parsedChannels
             /\ warnings'[Len(warnings')].kind = "Malformed"
             /\ warnings'[Len(warnings')].arg = Trim(doc[i + 1].text)
             /\ SubSeq(warnings', 1, Len(warnings)) = warnings
             /\ i' = i + 1]_vars
    /\ []((pc = "loop" /\ i >= 2 /\ doc[i - 1].kind = "malformed" /\ doc[i].kind = "url")
             => LastRecord = ExpectedBasic(doc[i], Len(parsedChannels) - 1))

\* a pending channel dropped by a malformed directive, then a URL line
C8_Witness ==
    /\ pc = "loop"
    /\ doc = <<DirFull, MalformedLine, UrlA>>
    /\ i = 3
    /\ currentChannel = null
    /\ parsedChannels = <<ExpectedBasic(UrlA, 0)>>
    /\ warnings[2].kind = "DiscardPrevious"
    /\ warnings[3].kind = "Malformed"

\* C9: the pending slot holds at most one channel, without url; a directive
\* read while a channel is pending warns of the discard and emits nothing;
\* the record completed by the URL line after two directives in a row is the
\* record of the later directive alone.
C9_LaterDirectiveSupersedes ==
    /\ [](currentChannel # null =>
             (currentChannel.url = <<>> /\ pc \in {"loop", "attrs", "done"}))
    /\ [][(AtLine("extinf") /\ currentChannel # null) =>
             /\ warnings' =
                   Append(warnings, Warn("DiscardPrevious", currentChannel.name, <<>>))
             /\ parsedChannels' = parsedChannels]_vars
    /\ []((/\ pc = "loop" /\ i >= 3
           /\ doc[i - 2].kind = "extinf" /\ doc[i - 1].kind = "extinf"
           /\ doc[i].kind = "url")
             => /\ LastRecord = ExpectedRecord(doc[i - 1], doc[i], Len(parsedChannels) - 1)
                /\ Len(parsedChannels) <= i - 2)

\* a directive with four attributes superseded by one with none
C9_Witness ==
    /\ pc = "loop"
    /\ doc = <<DirFull, DirPlain, UrlA>>
    /\ i = 3
    /\ parsedChannels = <<ExpectedRecord(DirPlain, UrlA, 0)>>
    /\ LastRecord.tvgId = <<>>
    /\ warnings[2] = Warn("DiscardPrevious", NameABC, <<>>)

\* C10: an invocation returns what the first invocation on the same text
\* returned, whatever was parsed in between.
C10_SameTextSameResult ==
    (pc = "done" /\ first # null /\ first.text = m3uText) => parsedChannels = first.result

\* the first text parsed again after a parse of another text, with both
\* counters in use
C10_Witness ==
    /\ pc = "done"
    /\ first # null
    /\ first.text = m3uText
    /\ first.others
    /\ doc = <<DirEmptyGroup, UrlA>>
    /\ parsedChannels[1].name = UnnamedPrefix \o <<"1">>

\* the playlist of the caller's first invocation
FirstDoc == CHOOSE d \in CallDocs : Join(d) = first.text

\* a playlist rewritten with every attribute key in lower case
FoldKeys(attrs) == [j \in DOMAIN attrs |-> Attr(ToLowerCase(attrs[j].key), attrs[j].value)]
FoldLine(l) == IF l.kind = "extinf" THEN Directive(FoldKeys(l.attrs), l.name) ELSE l
FoldDoc(d) == [k \in DOMAIN d |-> FoldLine(d[k])]

\* C11: two playlists that differ only in the letter case of attribute keys
\* return the same records: the same name, tvgId, tvgName, logo, group, url.
C11_KeyCaseIgnored ==
    (/\ pc = "done" /\ first # null
     /\ first.text # m3uText
     /\ FoldDoc(FirstDoc) = FoldDoc(doc))
        => parsedChannels = first.result

\* the directive with upper-case keys parsed after its lower-case twin, as
\* the second record of the playlist
C11_Witness ==
    /\ pc = "done"
    /\ first # null
    /\ first.text = Join(<<UrlA, DirCaseLower, UrlA>>)
    /\ doc = <<UrlA, DirCaseUpper, UrlA>>
    /\ Len(parsedChannels) = 2
    /\ parsedChannels[2].name = <<"n", "1">>
    /\ parsedChannels[2].tvgId = <<"i", "1">>
    /\ parsedChannels[2].tvgName = <<"n", "1">>
    /\ parsedChannels[2].logo = <<"l", "1">>
    /\ parsedChannels[2].group = <<"g", "1">>

\* a playlist rewritten without the pairs whose lower-cased key is not one of
\* the four keys of the switch
KnownKeys == {KeyTvgId, KeyTvgName, KeyTvgLogo, KeyGroupTitle}
RECURSIVE StripUnknown(_)
StripUnknown(attrs) ==
    IF attrs = <<>> THEN <<>>
    ELSE IF ToLowerCase(Head(attrs).key) \in KnownKeys
    THEN <<Head(attrs)>> \o StripUnknown(Tail(attrs))
    ELSE StripUnknown(Tail(attrs))
StripLine(l) == IF l.kind = "extinf" THEN Directive(StripUnknown(l.attrs), l.name) ELSE l
StripDoc(d) == [k \in DOMAIN d |-> StripLine(d[k])]

\* the same, keeping the unknown pairs whose key is not made of letters,
\* digits, underscores and hyphens alone
RECURSIVE StripUnknownWords(_)
StripUnknownWords(attrs) ==
    IF attrs = <<>> THEN <<>>
    ELSE IF /\ ToLowerCase(Head(attrs).key) \notin KnownKeys
            /\ Range(Head(attrs).key) \subseteq
                  Range(LowerSeq) \cup Range(UpperSeq) \cup Range(DigitSeq) \cup {"_", "-"}
    THEN StripUnknownWords(Tail(attrs))
    ELSE <<Head(attrs)>> \o StripUnknownWords(Tail(attrs))
StripWordsLine(l) ==
    IF l.kind = "extinf" THEN Directive(StripUnknownWords(l.attrs), l.name) ELSE l
StripWordsDoc(d) == [k \in DOMAIN d |-> StripWordsLine(d[k])]

\* C12 as claimed: two playlists that differ only by pairs of unknown keys,
\* wherever these stand among the other pairs, return the same records.
C12_AnyUnknownKeyIgnored ==
    (/\ pc = "done" /\ first # null
     /\ first.text # m3uText
     /\ StripDoc(FirstDoc) = StripDoc(doc))
        => parsedChannels = first.result

\* C12 amended: the same for pairs of unknown keys made of letters, digits,
\* underscores and hyphens alone; the invocation on either playlist returns.
C12_UnknownKeysIgnored ==
    (/\ pc = "done" /\ first # null
     /\ first.text # m3uText
     /\ StripWordsDoc(FirstDoc) = StripWordsDoc(doc))
        => parsedChannels = first.result

\* the directive with an unknown pair between its second and third pair,
\* parsed after the directive without it
C12_Witness ==
    /\ pc = "done"
    /\ first # null
    /\ first.text = Join(<<DirCaseLower, UrlA>>)
    /\ doc = <<Directive(InsertAt(DirFull.attrs, 2, AttrCatchup), NameChannel5), UrlA>>
    /\ Len(parsedChannels) = 1
    /\ parsedChannels[1].name = <<"n", "1">>
    /\ parsedChannels[1].tvgId = <<"i", "1">>
    /\ parsedChannels[1].logo = <<"l", "1">>
    /\ parsedChannels[1].group = <<"g", "1">>

MissingHeaderWarned == \E k \in 1..Len(warnings) : warnings[k].kind = "MissingHeader"
HasNonBlank(d) == \E k \in 1..Len(d) : d[k].kind # "blank"
FirstNonBlank(d) ==
    CHOOSE k \in 1..Len(d) : d[k].kind # "blank" /\ \A j \in 1..(k - 1) : d[j].kind = "blank"

\* C13 as claimed: the missing-header warning is emitted exactly when the
\* first non-blank line of the playlist is not the header marker.
C13_FirstNonBlankLine ==
    (pc # "call" /\ HasNonBlank(doc)) =>
        (MissingHeaderWarned <=> doc[FirstNonBlank(doc)].kind # "header")

\* C13 amended: the missing-header warning is emitted, once and before any
\* line is processed, exactly when the first line of the text, trimmed, does
\* not begin with the marker; either way the loop starts at the first line
\* with no record and no pending channel.
C13_FirstLineBeginsWithMarker ==
    /\ [](pc # "call" =>
             /\ MissingHeaderWarned <=> ~StartsWith(Trim(doc[1].text), EXTM3U)
             /\ \A k \in 2..Len(warnings) : warnings[k].kind # "MissingHeader")
    /\ [][pc = "call" =>
             /\ pc' = "loop" /\ i' = 0
             /\ parsedChannels' = <<>> /\ currentChannel' = null
             /\ lines' = [k \in DOMAIN doc |-> doc[k].text]]_vars

\* a blank line before the header: warned, and the URL line after it is parsed
C13_Witness ==
    /\ pc = "done"
    /\ doc = <<BlankLine, HeaderLine, UrlA>>
    /\ Len(warnings) = 2
    /\ warnings[1] = Warn("MissingHeader", <<>>, <<>>)
    /\ parsedChannels = <<ExpectedBasic(UrlA, 0)>>

\* C14: a directive that is neither the exact marker nor a metadata
\* directive, read while a channel is pending, drops the channel with one
\* warning naming the line and the channel and emits nothing; read while
\* Idle it changes nothing but the line index; the URL line right after it
\* yields the bare-URL record.
C14_OtherDirectiveDiscards ==
    /\ [][AtLine("other") =>
             /\ currentChannel' = null
             /\ parsedChannels' = parsedChannels
             /\ i' = i + 1 /\ pc' = "loop"
             /\ IF currentChannel # null
                THEN warnings' =
                        Append(warnings, Warn("DirectiveBeforeUrl", Trim(doc[i + 1].text),
                                              currentChannel.name))
                ELSE warnings' = warnings]_vars
    /\ []((pc = "loop" /\ i >= 2 /\ doc[i - 1].kind = "other" /\ doc[i].kind = "url")
             => LastRecord = ExpectedBasic(doc[i], Len(parsedChannels) - 1))

\* a pending channel dropped by a directive that begins with the marker,
\* then a URL line
C14_Witness ==
    /\ pc = "loop"
    /\ doc = <<DirPlain, HeaderLike, UrlA>>
    /\ i = 3
    /\ currentChannel = null
    /\ parsedChannels = <<ExpectedBasic(UrlA, 0)>>
    /\ warnings[2] = Warn("DirectiveBeforeUrl", HeaderLike.text, NameTwo)
    /\ warnings[3].kind = "BareUrl"

\* a playlist without its blank lines and its exact header lines
KeepsLine(l) == l.kind \notin {"blank", "header"}
Compact(d) == SelectSeq(d, KeepsLine)

\* the records of a playlist that has no blank and no header line: one for
\* each URL line, from the directive with a comma on the line before it when
\* there is one, the bare record otherwise
UrlLines(d) == {p \in 1..Len(d) : d[p].kind = "url"}
NthUrl(d, k) == CHOOSE p \in UrlLines(d) : Cardinality({q \in UrlLines(d) : q < p}) = k - 1
RecordsOf(d) ==
    [k \in 1..Cardinality(UrlLines(d)) |->
        LET p == NthUrl(d, k)
        IN  IF p > 1 /\ d[p - 1].kind = "extinf"
            THEN ExpectedRecord(d[p - 1], d[p], k - 1)
            ELSE ExpectedBasic(d[p], k - 1)]

\* C15: a blank line or an exact header line changes nothing but the line
\* index, whether a channel is pending or not; the records returned for a
\* playlist are those of the playlist without its blank and header lines,
\* so a pending channel is completed by the next URL line across them.
C15_BlankAndHeaderAreNoOps ==
    /\ [][(AtLine("blank") \/ AtLine("header")) =>
             /\ currentChannel' = currentChannel
             /\ parsedChannels' = parsedChannels
             /\ warnings' = warnings
             /\ i' = i + 1 /\ pc' = "loop"]_vars
    /\ [](pc = "done" => parsedChannels = RecordsOf(Compact(doc)))

\* a channel with four attributes pending across a header line
C15_Witness ==
    /\ pc = "done"
    /\ doc = <<DirFull, HeaderLine, UrlB>>
    /\ parsedChannels = <<ExpectedRecord(DirFull, UrlB, 0)>>
    /\ parsedChannels[1].group = <<"g", "1">>
    /\ warnings = <<Warn("MissingHeader", <<>>, <<>>)>>

UnfinishedWarned == \E k \in 1..Len(warnings) : warnings[k].kind = "MissingUrlAtEOF"

\* C16: the return appends no record; the unfinished-channel warning is
\* emitted at the return and only there, exactly when a channel is pending;
\* the pending channel is then that of the last directive, no URL line
\* follows it, and the records are those of the URL lines before it.
C16_UnfinishedNeverEmitted ==
    /\ [](pc # "done" => ~UnfinishedWarned)
    /\ [](pc = "done" => (UnfinishedWarned <=> currentChannel # null))
    /\ [][(pc = "loop" /\ i = Len(lines)) =>
             /\ parsedChannels' = parsedChannels
             /\ currentChannel' = currentChannel
             /\ pc' = "done"]_vars
    /\ []((pc = "done" /\ currentChannel # null) =>
             \E q \in 1..Len(doc) :
                /\ doc[q].kind = "extinf"
                /\ \A j \in (q + 1)..Len(doc) : doc[j].kind \in {"blank", "header"}
                /\ \E k \in 1..Len(warnings) :
                      warnings[k] = Warn("MissingUrlAtEOF", Trim(doc[q].text), <<>>)
                /\ Len(parsedChannels) = Cardinality({p \in UrlLines(doc) : p < q}))

\* a bare URL line, then a directive that no URL line follows
C16_Witness ==
    /\ pc = "done"
    /\ doc = <<UrlA, DirFull, BlankLine>>
    /\ currentChannel # null
    /\ parsedChannels = <<ExpectedBasic(UrlA, 0)>>
    /\ warnings[Len(warnings)] = Warn("MissingUrlAtEOF", DirFull.text, <<>>)

\* the content lines of a playlist: the first character that is not white
\* space exists and is not the number sign
ContentLines(d) ==
    {p \in 1..Len(d) :
        \E c \in 1..Len(d[p].text) :
            /\ d[p].text[c] \notin WhiteSpace \cup {"#"}
            /\ \A j \in 1..(c - 1) : d[p].text[j] \in WhiteSpace}
NthContent(d, k) ==
    CHOOSE p \in ContentLines(d) : Cardinality({q \in ContentLines(d) : q < p}) = k - 1

\* C17: a step on a content line appends exactly one record and ends Idle,
\* no other step changes the output; at any point the records are as many
\* as the content lines passed, the k-th with the k-th content line, trimmed,
\* as url; the returned output is empty exactly when there is no content line.
C17_OneRecordPerContentLine ==
    /\ [][IF pc = "loop" /\ i < Len(lines) /\ (i + 1) \in ContentLines(doc)
          THEN /\ Len(parsedChannels') = Len(parsedChannels) + 1
               /\ SubSeq(parsedChannels', 1, Len(parsedChannels)) = parsedChannels
               /\ currentChannel' = null
               /\ i' = i + 1
          ELSE parsedChannels' = parsedChannels]_vars
    /\ [](pc # "call" =>
             /\ Len(parsedChannels) = Cardinality({p \in ContentLines(doc) : p <= i})
             /\ \A k \in 1..Len(parsedChannels) :
                   parsedChannels[k].url = Trim(doc[NthContent(doc, k)].text))
    /\ [](pc = "done" => (parsedChannels = <<>> <=> ContentLines(doc) = {}))

\* a content line that is no URL completes the pending channel, and a URL
\* line after it stands alone
C17_Witness ==
    /\ pc = "done"
    /\ doc = <<DirPlain, TextLine, UrlA>>
    /\ parsedChannels = <<ExpectedRecord(DirPlain, TextLine, 0), ExpectedBasic(UrlA, 1)>>
    /\ parsedChannels[1].url = TextLine.text
    /\ currentChannel = null

\* the line a content line at p, or a pending channel before line p, has its
\* metadata from: the last line before p that is neither blank nor a header
\* line (0 when there is none)
Origin(d, p) ==
    CHOOSE q \in 0..(p - 1) :
        /\ q = 0 \/ KeepsLine(d[q])
        /\ \A j \in (q + 1)..(p - 1) : ~KeepsLine(d[j])
\* line q is a directive whose name the empty-name fallback synthesizes
NeedsSynthesizedName(d, q) ==
    /\ q # 0 /\ d[q].kind = "extinf"
    /\ d[q].name = <<>> /\ Written(d[q].attrs, KeyTvgName) = <<>>
\* line q is no directive with a comma, so a content line after it is bare
LeavesIdle(d, q) == q = 0 \/ d[q].kind # "extinf"

\* C18: a record synthesized for a bare content line is named Channel k and
\* a record of a directive without display name and tvg-name is named
\* Unnamed Channel k, k being its position in the output; while such a
\* channel is pending its number is the number of records plus one, and a
\* step that emits a record while a channel is pending emits that channel.
C18_SynthesizedNumberIsPosition ==
    /\ [](pc # "call" =>
             \A k \in 1..Len(parsedChannels) :
                LET q == Origin(doc, NthContent(doc, k))
                IN  /\ LeavesIdle(doc, q) =>
                          parsedChannels[k].name = ChannelPrefix \o NumToStr(k)
                    /\ NeedsSynthesizedName(doc, q) =>
                          parsedChannels[k].name = UnnamedPrefix \o NumToStr(k))
    /\ []((pc \in {"loop", "done"} /\ currentChannel # null
                /\ NeedsSynthesizedName(doc, Origin(doc, i + 1))) =>
             currentChannel.name = UnnamedPrefix \o NumToStr(Len(parsedChannels) + 1))
    /\ [][(currentChannel # null /\ parsedChannels' # parsedChannels) =>
             /\ Len(parsedChannels') = Len(parsedChannels) + 1
             /\ SubSeq(parsedChannels', 1, Len(parsedChannels)) = parsedChannels
             /\ parsedChannels'[Len(parsedChannels')].name = currentChannel.name
             /\ currentChannel' = null]_vars

\* a bare URL line, then a directive without any name and its URL line
C18_Witness ==
    /\ pc = "done"
    /\ doc = <<UrlB, DirEmpty, UrlA>>
    /\ Len(parsedChannels) = 2
    /\ parsedChannels[1].name = ChannelPrefix \o <<"1">>
    /\ parsedChannels[2].name = UnnamedPrefix \o <<"2">>

\* the position of the last comma of a text that has one
LastComma(t) == CHOOSE p \in 1..Len(t) : t[p] = "," /\ \A q \in (p + 1)..Len(t) : t[q] # ","
HasComma(t) == \E p \in 1..Len(t) : t[p] = ","
\* the key of the pair that sets a field
FieldKey ==
    [tvgId |-> KeyTvgId, tvgName |-> KeyTvgName, logo |-> KeyTvgLogo, group |-> KeyGroupTitle]
Pair(key, value) == key \o <<"=", "\"">> \o value \o <<"\"">>

\* C19: reading a directive sets the name to the trimmed text after its last
\* comma and hands the trimmed text between the prefix and that comma to the
\* attribute loop; every field the loop sets is set from a pair that stands
\* in that text; so, with a display name free of commas, each field is the
\* value written for its key before the name, commas included, and a pair
\* written after the last comma sets nothing.
C19_SplitAtLastComma ==
    /\ [][AtLine("extinf") =>
             LET t == Trim(doc[i + 1].text)
             IN  /\ pc' = "attrs"
                 /\ currentChannel'.name = Trim(SubSeq(t, LastComma(t) + 1, Len(t)))
                 /\ attributesPart' = Trim(SubSeq(t, PrefixLen + 1, LastComma(t) - 1))
                 /\ \A f \in DOMAIN FieldKey : currentChannel'[f] = <<>>]_vars
    /\ [][(pc = "attrs" /\ pc' = "attrs") =>
             /\ currentChannel'.name = currentChannel.name
             /\ \A f \in DOMAIN FieldKey :
                   currentChannel'[f] # currentChannel[f] =>
                      LET pair == Pair(FieldKey[f], currentChannel'[f])
                      IN  /\ lastIndex + Len(pair) <= lastIndex'
                          /\ SubSeq(attributesPart, lastIndex' - Len(pair) + 1, lastIndex')
                                = pair]_vars
    /\ []((AfterDirective /\ ~HasComma(doc[i].name)
                /\ doc[i] = Directive(doc[i].attrs, doc[i].name)) =>
             \A f \in DOMAIN FieldKey :
                currentChannel[f] = Written(doc[i].attrs, FieldKey[f]))

\* a directive with two values that have commas in them has been read
C19_Witness ==
    /\ AfterDirective
    /\ doc = <<DirCommaValue, UrlA>>
    /\ i = 1
    /\ currentChannel.name = NameTwo
    /\ currentChannel.group = <<"a", ",", "b">>
    /\ currentChannel.tvgId = <<"i", ",">>

ZeroChannelsWarnings == {k \in 1..Len(warnings) : warnings[k].kind = "ZeroChannels"}

\* C20: the zero-result warning is emitted, once, as the last warning of the
\* return and nowhere else, exactly when no record was produced and the
\* text has a newline in it (split gives more than one line); the return
\* leaves the output as the loop left it.
C20_ZeroResultWarning ==
    /\ [](pc # "done" => ZeroChannelsWarnings = {})
    /\ [](pc = "done" =>
             IF parsedChannels = <<>> /\ (\E p \in 1..Len(m3uText) : m3uText[p] = "\n")
             THEN ZeroChannelsWarnings = {Len(warnings)}
             ELSE ZeroChannelsWarnings = {})
    /\ [][pc' = "done" => parsedChannels' = parsedChannels]_vars

\* a header line and a directive that no URL line follows
C20_Witness ==
    /\ pc = "done"
    /\ doc = <<HeaderLine, DirPlain>>
    /\ parsedChannels = <<>>
    /\ Len(warnings) = 2
    /\ warnings[1].kind = "MissingUrlAtEOF"
    /\ warnings[2] = Warn("ZeroChannels", <<>>, <<>>)

====
